---- MODULE Spec2Model ----
(***************************************************************************)
(* Model of the email-clean job pipeline: the upload route that creates a  *)
(* job and launches processCsvJob, the two worker variants (the syntax     *)
(* worker of src/backend/worker.js and the progress-reporting worker), and *)
(* the read-only routes GET /api/download/:filename and GET /api/jobs/:id. *)
(*                                                                         *)
(* Strings the code inspects character by character (download file names) *)
(* are sequences of one-character strings.  Column names and cell values   *)
(* are atoms; the library functions applied to them (toLowerCase,          *)
(* includes, email-validator's validate) are tables over those atoms.      *)
(*                                                                         *)
(* The worker is modelled at the level of the events delivered to the      *)
(* handlers it registers: the parsed stream delivers its records in order  *)
(* and then exactly one of 'end' or 'error' (Node's stream contract).      *)
(***************************************************************************)
EXTENDS Integers, Sequences, FiniteSets, TLC

\* ------------------------------------------------------------------ bounds

\* Longest input file whose rows are drawn freely.
MaxRows == 2

\* Longest input file made of one repeated row (reaches the progress updates).
MaxLongRows == 11

\* Longest freely drawn input file of two concurrent uploads.
MaxTwoRows == 1

\* processedCount % 10 === 0: the progress-update cadence of the
\* progress-reporting worker.
BatchSize == 10

\* ------------------------------------------------------------- identifiers

\* Upload requests the model follows; a job's id is its request's slot.
Slots == {1, 2}

Users == {"u1", "u2"}

\* The authenticated user of each upload request (req.user.uid).
Owner(j) == IF j = 1 THEN "u1" ELSE "u2"

\* A field a document does not hold is <<>>; a field it holds is <<value>>.
Absent == <<>>
Some(x) == <<x>>

\* ------------------------------------------------------------ input files

Headers == { <<"email">>, <<"name", "Email">>, <<"name">> }

\* Cell values of a candidate email column, and of any other column.
EmailValues == {"", "a@b.com", "not-an-email"}
NameValues == {"n"}

\* k.toLowerCase() over the column names of the model.
ToLowerCase(k) ==
  CASE k = "Email" -> "email"
    [] k = "EMAIL" -> "email"
    [] OTHER -> k

\* s.includes('email') over the lower-cased column names of the model.
IncludesEmail(s) == s \in {"email", "email address"}

\* The rows a file with header h can hold: one value per column.
RowsOf(h) ==
  IF Len(h) = 1 THEN { <<v>> : v \in EmailValues }
  ELSE { <<n, v>> : n \in NameValues, v \in EmailValues }

SeqsUpTo(S, n) == UNION { [1..k -> S] : k \in 0..n }

\* Files whose rows are drawn freely, up to MaxRows rows.
ShortFiles ==
  UNION { { [header |-> h, rows |-> rs] : rs \in SeqsUpTo(RowsOf(h), MaxRows) }
          : h \in Headers }

\* Files of one repeated row, long enough to cross the progress cadence.
LongFiles ==
  { [header |-> <<"email">>, rows |-> [i \in 1..n |-> <<v>>]]
      : n \in (MaxRows + 1)..MaxLongRows, v \in EmailValues }

Files == ShortFiles \cup LongFiles

\* Files for two concurrent uploads: up to MaxTwoRows free rows, or one
\* batch of the same row.
TwoFiles ==
  { [header |-> <<"email">>, rows |-> rs]
      : rs \in SeqsUpTo(RowsOf(<<"email">>), MaxTwoRows) }
  \cup { [header |-> <<"email">>, rows |-> [i \in 1..BatchSize |-> <<"a@b.com">>]] }

\* An upload request: none made in this slot, one without a file (req.file
\* undefined), or one carrying a file.
NoRequest == [kind |-> "none"]
NoFileReq == [kind |-> "nofile"]
FileReq(f) == [kind |-> "file", header |-> f.header, rows |-> f.rows]

\* ---------------------------------------------------------------- strings

\* s.startsWith(p) on sequences of characters.
StartsWith(s, p) == Len(s) >= Len(p) /\ SubSeq(s, 1, Len(p)) = p

\* s.includes(p) on sequences of characters.
Includes(s, p) ==
  \E i \in 1..(Len(s) - Len(p) + 1) : SubSeq(s, i, i + Len(p) - 1) = p

ResultsPrefix == <<"r", "e", "s", "u", "l", "t", "s", "-">>
CsvSuffix == <<".", "c", "s", "v">>
DotDot == <<".", ".">>
ApiDownload == <<"/", "a", "p", "i", "/", "d", "o", "w", "n", "l", "o", "a", "d", "/">>

\* A job id as text.
IdStr(j) == IF j = 1 THEN <<"1">> ELSE <<"2">>

\* `results-${jobId}.csv`
OutputFilename(j) == ResultsPrefix \o IdStr(j) \o CsvSuffix

\* DownloadUrl built from the owner of the job instead of its id.
M_DownloadUrl(j) == ApiDownload \o ResultsPrefix \o <<Owner(j)>> \o CsvSuffix

\* `/api/download/${outputFilename}`
DownloadUrl(j) == ApiDownload \o OutputFilename(j)

\* ------------------------------------------------------- record validation

\* JavaScript truthiness of a cell value (undefined is Absent).
Truthy(v) == v # Absent /\ v # Some("")

\* email-validator's validate over the cell values of the model.
SyntaxValid(e) == e = "a@b.com"

\* Object.keys(row).find(k => k.toLowerCase().includes('email')): the index
\* of the first such column, 0 when there is none (find returns undefined).
EmailKey(header) ==
  LET hits == { i \in 1..Len(header) : IncludesEmail(ToLowerCase(header[i])) }
  IN IF hits = {} THEN 0 ELSE CHOOSE i \in hits : \A k \in hits : i <= k

\* row[emailKey]: the cell, or undefined when the key is undefined.
EmailOf(header, row) ==
  LET k == EmailKey(header) IN IF k = 0 THEN Absent ELSE Some(row[k])

\* The data handler's classification of one row (syntax worker).
Classify(header, row) ==
  LET email == EmailOf(header, row)
  IN IF Truthy(email) /\ SyntaxValid(email[1]) THEN "Valid" ELSE "Invalid"

\* The input row as ordered (column, value) pairs.
Columns(header, row) == [i \in 1..Len(header) |-> <<header[i], row[i]>>]

\* row['Validation Status'] = status; csvStream.write(row)
SimpleOutRow(header, row) ==
  Columns(header, row) \o << <<"Validation Status", Classify(header, row)>> >>

\* The value of the column named k, undefined when the row has none.
Cell(header, row, k) ==
  IF \E i \in 1..Len(header) : header[i] = k
  THEN Some(row[CHOOSE i \in 1..Len(header) : header[i] = k])
  ELSE Absent

\* row.email || row.Email || Object.values(row)[0]
PWEmailOf(header, row) ==
  IF Truthy(Cell(header, row, "email")) THEN Cell(header, row, "email")
  ELSE IF Truthy(Cell(header, row, "Email")) THEN Cell(header, row, "Email")
  ELSE Some(row[1])

\* validateEmail of the progress-reporting worker: a stub.
ValidateEmail(email) == [status |-> "Risky", reason |-> "Mock Logic"]

\* { ...row, validation_status, validation_reason }
PWOutRow(header, row) ==
  LET result == ValidateEmail(PWEmailOf(header, row)[1])
  IN Columns(header, row) \o << <<"validation_status", result.status>>,
                                 <<"validation_reason", result.reason>> >>

\* ------------------------------------------------------------------ state

VARIABLES
  worker,   \* the worker module the server loads: "simple" or "progress"
  input,    \* per slot: the upload request that will be made
  resp,     \* per slot: the response of POST /api/upload, <<>> before it
  store,    \* the jobs collection: per id a document, or [exists |-> FALSE]
  upFile,   \* per slot: the uploaded file: "none", "present" or "removed"
  unlinks,  \* per slot: how many times the uploaded file was deleted
  out,      \* per slot: the records written to the job's output stream
  pc,       \* per slot: where the background run of processCsvJob stands
  pos,      \* per slot: input records the stream has delivered
  counts,   \* per slot: the run's validCount, invalidCount, riskyCount, processedCount
  ev,       \* per slot: the terminal event of the input stream: "none", "end", "error"
  caught,   \* per slot: the message of the error the run's catch block holds
  wfail,    \* per slot: a store write of the run has failed
  flushed,  \* per slot: every record written to the output stream is in the file
  http      \* the last response of a read-only route

vars == <<worker, input, resp, store, upFile, unlinks, out, pc, pos, counts,
          ev, caught, wfail, flushed, http>>

NoDoc == [exists |-> FALSE]

\* jobRef.set({...}) of POST /api/upload.
NewJob(j) ==
  [exists |-> TRUE, id |-> j, userId |-> Owner(j), status |-> "processing",
   fileName |-> "upload.csv", processedCount |-> 0, totalEmails |-> 0,
   stats |-> [valid |-> 0, invalid |-> 0, risky |-> 0],
   downloadUrl |-> Absent, error |-> Absent,
   createdAt |-> Some("serverTimestamp"), completedAt |-> Absent]

ZeroCounts == [valid |-> 0, invalid |-> 0, risky |-> 0, processed |-> 0]

Rows(j) == input[j].rows
Header(j) == input[j].header

\* The requests the environment may make in a slot.
Requests == {NoFileReq} \cup { FileReq(f) : f \in Files }

\* The requests of two concurrent uploads.
TwoRequests == {NoFileReq} \cup { FileReq(f) : f \in TwoFiles }

TypeOK ==
  /\ worker \in {"simple", "progress"}
  /\ \A j \in Slots :
       /\ upFile[j] \in {"none", "present", "removed"}
       /\ unlinks[j] \in Nat
       /\ pos[j] \in Nat
       /\ ev[j] \in {"none", "end", "error"}
       /\ wfail[j] \in BOOLEAN
       /\ flushed[j] \in BOOLEAN

\* The state after the server has started, the requests to come being one
\* of inputs.
Start(inputs) ==
  /\ worker \in {"simple", "progress"}
  /\ input \in inputs
  /\ resp = [j \in Slots |-> Absent]
  /\ store = [j \in Slots |-> NoDoc]
  /\ upFile = [j \in Slots |-> "none"]
  /\ unlinks = [j \in Slots |-> 0]
  /\ out = [j \in Slots |-> Absent]
  /\ pc = [j \in Slots |-> "idle"]
  /\ pos = [j \in Slots |-> 0]
  /\ counts = [j \in Slots |-> ZeroCounts]
  /\ ev = [j \in Slots |-> "none"]
  /\ caught = [j \in Slots |-> Absent]
  /\ wfail = [j \in Slots |-> FALSE]
  /\ flushed = [j \in Slots |-> TRUE]
  /\ http = [route |-> "none"]

\* One upload request, of any file.
Init == Start({ [j \in Slots |-> IF j = 1 THEN r ELSE NoRequest] : r \in Requests })

\* Two upload requests, one per owner, of small files or of one file that
\* reaches the progress cadence.
InitTwo == Start([Slots -> TwoRequests])

\* ------------------------------------------------------- POST /api/upload

\* UploadNoFile with the job document written before the file is looked at.
M_UploadNoFile(j) ==
  /\ resp[j] = Absent
  /\ input[j] = NoFileReq
  /\ store' = [store EXCEPT ![j] = NewJob(j)]
  /\ resp' = [resp EXCEPT ![j] = Some([code |-> 400, jobId |-> Absent])]
  /\ UNCHANGED <<worker, input, flushed, upFile, unlinks, out, pc, pos, counts,
                 ev, caught, wfail, http>>

\* The request carries no file: 400, before anything else happens.
UploadNoFile(j) ==
  /\ resp[j] = Absent
  /\ input[j] = NoFileReq
  /\ resp' = [resp EXCEPT ![j] = Some([code |-> 400, jobId |-> Absent])]
  /\ UNCHANGED <<worker, input, flushed, store, upFile, unlinks, out, pc, pos, counts,
                 ev, caught, wfail, http>>

\* UploadStoreFails with the uploaded file left in place.
M_UploadStoreFails(j) ==
  /\ resp[j] = Absent
  /\ input[j].kind = "file"
  /\ upFile' = [upFile EXCEPT ![j] = "present"]
  /\ resp' = [resp EXCEPT ![j] = Some([code |-> 500, jobId |-> Absent])]
  /\ UNCHANGED <<worker, input, flushed, store, unlinks, out, pc, pos, counts, ev,
                 caught, wfail, http>>

\* jobRef.set throws: the catch removes the uploaded file and answers 500.
UploadStoreFails(j) ==
  /\ resp[j] = Absent
  /\ input[j].kind = "file"
  /\ upFile' = [upFile EXCEPT ![j] = "removed"]
  /\ resp' = [resp EXCEPT ![j] = Some([code |-> 500, jobId |-> Absent])]
  /\ UNCHANGED <<worker, input, flushed, store, unlinks, out, pc, pos, counts, ev,
                 caught, wfail, http>>

\* The start of processCsvJob up to its first suspension: the output file is
\* created and the run waits for the stream's first event.
StartPc == IF worker = "simple" THEN "streaming" ELSE "loop"

\* The job document is written, processCsvJob is launched without being
\* awaited, and the response carries the job id.
UploadOk(j) ==
  /\ resp[j] = Absent
  /\ input[j].kind = "file"
  /\ store' = [store EXCEPT ![j] = NewJob(j)]
  /\ upFile' = [upFile EXCEPT ![j] = "present"]
  /\ out' = [out EXCEPT ![j] = Some(<<>>)]
  /\ pc' = [pc EXCEPT ![j] = StartPc]
  /\ resp' = [resp EXCEPT ![j] = Some([code |-> 200, jobId |-> Some(j)])]
  /\ UNCHANGED <<worker, input, flushed, unlinks, pos, counts, ev, caught, wfail, http>>

\* ------------------------------------- processCsvJob, src/backend/worker.js

\* The 'data' handler: classify the row, count it, append the status column
\* and write the row to the output stream.
OnData(j) ==
  /\ worker = "simple"
  /\ pc[j] = "streaming"
  /\ pos[j] < Len(Rows(j))
  /\ LET row == Rows(j)[pos[j] + 1]
         status == Classify(Header(j), row)
     IN /\ counts' = [counts EXCEPT ![j] =
                        IF status = "Valid"
                        THEN [@ EXCEPT !.valid = @ + 1]
                        ELSE [@ EXCEPT !.invalid = @ + 1]]
        /\ out' = [out EXCEPT ![j] = Some(Append(@[1], SimpleOutRow(Header(j), row)))]
  /\ flushed' = [flushed EXCEPT ![j] = FALSE]
  /\ pos' = [pos EXCEPT ![j] = @ + 1]
  /\ UNCHANGED <<worker, input, resp, store, upFile, unlinks, pc, ev, caught,
                 wfail, http>>

\* The 'end' handler up to its await: the output stream is ended and the
\* final update is issued.
OnEnd(j) ==
  /\ worker = "simple"
  /\ pc[j] = "streaming"
  /\ pos[j] = Len(Rows(j))
  /\ ev' = [ev EXCEPT ![j] = "end"]
  /\ pc' = [pc EXCEPT ![j] = "endWrite"]
  /\ UNCHANGED <<worker, input, flushed, resp, store, upFile, unlinks, out, pos, counts,
                 caught, wfail, http>>

\* CompletedDoc with processedCount taken from the valid rows alone.
M_CompletedDoc(doc, j) ==
  [doc EXCEPT !.status = "completed",
              !.processedCount = counts[j].valid,
              !.totalEmails = counts[j].valid,
              !.stats = [valid |-> counts[j].valid, invalid |-> counts[j].invalid,
                         risky |-> counts[j].risky],
              !.downloadUrl = Some(DownloadUrl(j))]

\* The fields of the final update of the 'end' handler.
CompletedDoc(doc, j) ==
  [doc EXCEPT !.status = "completed",
              !.processedCount = counts[j].valid + counts[j].invalid + counts[j].risky,
              !.totalEmails = counts[j].valid + counts[j].invalid + counts[j].risky,
              !.stats = [valid |-> counts[j].valid, invalid |-> counts[j].invalid,
                         risky |-> counts[j].risky],
              !.downloadUrl = Some(DownloadUrl(j))]

\* The final update resolves: fs.unlink is issued and the promise resolves;
\* or it throws: the error is logged and the promise rejects.
EndWrite(j, ok) ==
  /\ pc[j] = "endWrite"
  /\ IF ok
     THEN /\ store' = [store EXCEPT ![j] = CompletedDoc(@, j)]
          /\ pc' = [pc EXCEPT ![j] = "unlinking"]
          /\ UNCHANGED wfail
     ELSE /\ pc' = [pc EXCEPT ![j] = "rejected"]
          /\ wfail' = [wfail EXCEPT ![j] = TRUE]
          /\ UNCHANGED store
  /\ UNCHANGED <<worker, input, flushed, resp, upFile, unlinks, out, pos, counts, ev,
                 caught, http>>

\* Unlink with a cleanup failure recorded on the job as a failure.
M_Unlink(j, ok) ==
  /\ pc[j] = "unlinking"
  /\ IF ok
     THEN /\ upFile' = [upFile EXCEPT ![j] = "removed"]
          /\ unlinks' = [unlinks EXCEPT ![j] = @ + 1]
          /\ UNCHANGED store
     ELSE /\ store' = [store EXCEPT ![j].status = "failed"]
          /\ UNCHANGED <<upFile, unlinks>>
  /\ pc' = [pc EXCEPT ![j] = "done"]
  /\ UNCHANGED <<worker, input, flushed, resp, out, pos, counts, ev, caught, wfail, http>>

\* The callback of fs.unlink(filePath, ...): the file is gone, or the error
\* is logged and the file stays.
Unlink(j, ok) ==
  /\ pc[j] = "unlinking"
  /\ IF ok
     THEN /\ upFile' = [upFile EXCEPT ![j] = "removed"]
          /\ unlinks' = [unlinks EXCEPT ![j] = @ + 1]
     ELSE UNCHANGED <<upFile, unlinks>>
  /\ pc' = [pc EXCEPT ![j] = "done"]
  /\ UNCHANGED <<worker, input, flushed, resp, store, out, pos, counts, ev, caught,
                 wfail, http>>

\* The 'error' handler up to its await: the failed update is issued.
OnError(j) ==
  /\ worker = "simple"
  /\ pc[j] = "streaming"
  /\ ev' = [ev EXCEPT ![j] = "error"]
  /\ pc' = [pc EXCEPT ![j] = "errWrite"]
  /\ UNCHANGED <<worker, input, flushed, resp, store, upFile, unlinks, out, pos, counts,
                 caught, wfail, http>>

\* FailedDoc of an 'error' handler that only logs.
M_FailedDoc(doc) == doc

\* update({ status: 'failed' }) of the 'error' handler.
FailedDoc(doc) == [doc EXCEPT !.status = "failed"]

\* The failed update resolves and the promise rejects; or the update throws
\* inside the handler and the promise is never settled.
ErrWrite(j, ok) ==
  /\ pc[j] = "errWrite"
  /\ IF ok
     THEN /\ store' = [store EXCEPT ![j] = FailedDoc(@)]
          /\ pc' = [pc EXCEPT ![j] = "rejected"]
          /\ UNCHANGED wfail
     ELSE /\ pc' = [pc EXCEPT ![j] = "hung"]
          /\ wfail' = [wfail EXCEPT ![j] = TRUE]
          /\ UNCHANGED store
  /\ UNCHANGED <<worker, input, flushed, resp, upFile, unlinks, out, pos, counts, ev,
                 caught, http>>

\* ------------------- processCsvJob, the progress-reporting worker (part_000)

\* One turn of the for-await loop: rows without an email are skipped; the
\* others are validated, counted and written, and every BatchSize-th one
\* issues a progress update.
PWRow(j) ==
  /\ worker = "progress"
  /\ pc[j] = "loop"
  /\ pos[j] < Len(Rows(j))
  /\ pos' = [pos EXCEPT ![j] = @ + 1]
  /\ LET row == Rows(j)[pos[j] + 1]
         email == PWEmailOf(Header(j), row)
     IN IF ~Truthy(email)
        THEN UNCHANGED <<counts, out, pc, flushed>>
        ELSE LET status == ValidateEmail(email[1]).status
                 c1 == IF status = "Valid" THEN [counts[j] EXCEPT !.valid = @ + 1]
                       ELSE IF status = "Invalid" THEN [counts[j] EXCEPT !.invalid = @ + 1]
                       ELSE [counts[j] EXCEPT !.risky = @ + 1]
                 c2 == [c1 EXCEPT !.processed = @ + 1]
             IN /\ counts' = [counts EXCEPT ![j] = c2]
                /\ out' = [out EXCEPT ![j] = Some(Append(@[1], PWOutRow(Header(j), row)))]
                /\ flushed' = [flushed EXCEPT ![j] = FALSE]
                /\ pc' = [pc EXCEPT ![j] =
                            IF c2.processed % BatchSize = 0 THEN "progWrite" ELSE "loop"]
  /\ UNCHANGED <<worker, input, resp, store, upFile, unlinks, ev, caught,
                 wfail, http>>

\* The fields of a progress update.
ProgressDoc(doc, j) ==
  [doc EXCEPT !.processedCount = counts[j].processed,
              !.stats = [valid |-> counts[j].valid, invalid |-> counts[j].invalid,
                         risky |-> counts[j].risky]]

\* The progress update resolves and the loop goes on; or it throws into the
\* catch block.
PWProgWrite(j, ok) ==
  /\ pc[j] = "progWrite"
  /\ IF ok
     THEN /\ store' = [store EXCEPT ![j] = ProgressDoc(@, j)]
          /\ pc' = [pc EXCEPT ![j] = "loop"]
          /\ UNCHANGED <<caught, wfail>>
     ELSE /\ pc' = [pc EXCEPT ![j] = "catch"]
          /\ caught' = [caught EXCEPT ![j] = Some("store write failed")]
          /\ wfail' = [wfail EXCEPT ![j] = TRUE]
          /\ UNCHANGED store
  /\ UNCHANGED <<worker, input, flushed, resp, upFile, unlinks, out, pos, counts, ev, http>>

\* The stream raises an error: the for-await loop throws into the catch block.
PWStreamError(j) ==
  /\ worker = "progress"
  /\ pc[j] = "loop"
  /\ ev' = [ev EXCEPT ![j] = "error"]
  /\ caught' = [caught EXCEPT ![j] = Some("stream error")]
  /\ pc' = [pc EXCEPT ![j] = "catch"]
  /\ UNCHANGED <<worker, input, flushed, resp, store, upFile, unlinks, out, pos, counts,
                 wfail, http>>

\* The stream is exhausted: csvStream.end(), then the wait for 'finish'.
PWEnd(j) ==
  /\ worker = "progress"
  /\ pc[j] = "loop"
  /\ pos[j] = Len(Rows(j))
  /\ ev' = [ev EXCEPT ![j] = "end"]
  /\ pc' = [pc EXCEPT ![j] = "finish"]
  /\ UNCHANGED <<worker, input, flushed, resp, store, upFile, unlinks, out, pos, counts,
                 caught, wfail, http>>

\* PWCompletedDoc with processedCount holding the records processed since
\* the last progress update (a delta, not the cumulative count).
M_PWCompletedDelta(doc, j) ==
  [doc EXCEPT !.status = "completed",
              !.processedCount = counts[j].processed % BatchSize,
              !.downloadUrl = Some(DownloadUrl(j)),
              !.stats = [valid |-> counts[j].valid, invalid |-> counts[j].invalid,
                         risky |-> counts[j].risky],
              !.completedAt = Some("serverTimestamp")]

\* PWCompletedDoc with processedCount taken from the rows read, skipped ones
\* included.
M_PWCompletedDoc(doc, j) ==
  [doc EXCEPT !.status = "completed",
              !.processedCount = pos[j],
              !.downloadUrl = Some(DownloadUrl(j)),
              !.stats = [valid |-> counts[j].valid, invalid |-> counts[j].invalid,
                         risky |-> counts[j].risky],
              !.completedAt = Some("serverTimestamp")]

\* The fields of the terminal update of the try block.
PWCompletedDoc(doc, j) ==
  [doc EXCEPT !.status = "completed",
              !.processedCount = counts[j].processed,
              !.downloadUrl = Some(DownloadUrl(j)),
              !.stats = [valid |-> counts[j].valid, invalid |-> counts[j].invalid,
                         risky |-> counts[j].risky],
              !.completedAt = Some("serverTimestamp")]

\* The output file has emitted 'finish' (all its records are written) and the
\* terminal update resolves; or the update throws into the catch block.
PWComplete(j, ok) ==
  /\ pc[j] = "finish"
  /\ flushed[j]
  /\ IF ok
     THEN /\ store' = [store EXCEPT ![j] = PWCompletedDoc(@, j)]
          /\ pc' = [pc EXCEPT ![j] = "finally"]
          /\ UNCHANGED <<caught, wfail>>
     ELSE /\ pc' = [pc EXCEPT ![j] = "catch"]
          /\ caught' = [caught EXCEPT ![j] = Some("store write failed")]
          /\ wfail' = [wfail EXCEPT ![j] = TRUE]
          /\ UNCHANGED store
  /\ UNCHANGED <<worker, input, flushed, resp, upFile, unlinks, out, pos, counts, ev, http>>

\* update({ status: 'failed', error: error.message }) of the catch block.
PWFailedDoc(doc, j) == [doc EXCEPT !.status = "failed", !.error = caught[j]]

\* The catch block's update resolves; or it throws, and the error leaves
\* processCsvJob once the finally block has run.
PWCatch(j, ok) ==
  /\ pc[j] = "catch"
  /\ IF ok
     THEN /\ store' = [store EXCEPT ![j] = PWFailedDoc(@, j)]
          /\ pc' = [pc EXCEPT ![j] = "finally"]
          /\ UNCHANGED wfail
     ELSE /\ pc' = [pc EXCEPT ![j] = "finallyThrow"]
          /\ wfail' = [wfail EXCEPT ![j] = TRUE]
          /\ UNCHANGED store
  /\ UNCHANGED <<worker, input, flushed, resp, upFile, unlinks, out, pos, counts, ev,
                 caught, http>>

\* The finally block: fs.remove(filePath), its failure logged.
PWFinally(j, ok) ==
  /\ pc[j] \in {"finally", "finallyThrow"}
  /\ IF ok
     THEN /\ upFile' = [upFile EXCEPT ![j] = "removed"]
          /\ unlinks' = [unlinks EXCEPT ![j] = @ + 1]
     ELSE UNCHANGED <<upFile, unlinks>>
  /\ pc' = [pc EXCEPT ![j] = IF pc[j] = "finally" THEN "done" ELSE "rejected"]
  /\ UNCHANGED <<worker, input, flushed, resp, store, out, pos, counts, ev, caught,
                 wfail, http>>

\* ------------------------------------------------ the output write stream

\* csvStream.pipe(writeStream): the file write stream writes out what the
\* run has written to csvStream so far, whenever the file system gets to it.
Flush(j) ==
  /\ out[j] # Absent
  /\ ~flushed[j]
  /\ flushed' = [flushed EXCEPT ![j] = TRUE]
  /\ UNCHANGED <<worker, input, resp, store, upFile, unlinks, out, pc, pos,
                 counts, ev, caught, wfail, http>>

\* ------------------------------------------------------ the server process

\* A run with a callback or continuation still pending.
InFlight(k) ==
  pc[k] \in {"streaming", "endWrite", "unlinking", "errWrite", "loop",
             "progWrite", "finish", "catch", "finally", "finallyThrow"}

\* The failed update throws inside the async 'error' handler, which nothing
\* awaits: an unhandled promise rejection.  Where the runtime turns it into an
\* uncaught exception the process exits and every run in flight is lost
\* (ErrWrite with ok = FALSE is the runtime that only warns).
ErrWriteCrash(j) ==
  /\ pc[j] = "errWrite"
  /\ pc' = [k \in Slots |->
              IF k = j THEN "hung" ELSE IF InFlight(k) THEN "killed" ELSE pc[k]]
  /\ wfail' = [wfail EXCEPT ![j] = TRUE]
  /\ UNCHANGED <<worker, input, resp, store, upFile, unlinks, out, pos, counts,
                 ev, caught, flushed, http>>

\* ------------------------------------------- GET /api/download/:filename

DotEnv == <<".", "e", "n", "v">>

\* The file names requested of the download route.
Filenames ==
  { OutputFilename(1),
    OutputFilename(2),
    ResultsPrefix \o <<"1">>,
    ResultsPrefix \o <<"1", ".", "t", "x", "t">>,
    ResultsPrefix \o <<"x", "/", "y", ".", "c", "s", "v">>,
    ResultsPrefix \o <<".", ".", "/">> \o DotEnv,
    <<".", ".", "/">> \o DotEnv,
    DotEnv }

\* Denied without the check for '..'.
M_Denied(filename) == ~StartsWith(filename, ResultsPrefix)

\* filename.includes('..') || !filename.startsWith('results-')
Denied(filename) ==
  Includes(filename, DotDot) \/ ~StartsWith(filename, ResultsPrefix)

\* fs.existsSync(path.join(__dirname, 'temp', filename)): the temp directory
\* holds the output files the workers have created.
ExistsSync(filename) ==
  \E j \in Slots : out[j] # Absent /\ filename = OutputFilename(j)

\* The route's response, with the file-system calls it made on the way.
DownloadResponse(filename, sendOk) ==
  IF Denied(filename)
  THEN [route |-> "download", name |-> filename, code |-> 403, fs |-> <<>>]
  ELSE IF ~ExistsSync(filename)
  THEN [route |-> "download", name |-> filename, code |-> 404, fs |-> <<"existsSync">>]
  ELSE [route |-> "download", name |-> filename,
        code |-> IF sendOk THEN 200 ELSE 500,
        fs |-> <<"existsSync", "download">>]

Download(filename, sendOk) ==
  /\ sendOk \/ (~Denied(filename) /\ ExistsSync(filename))
  /\ http' = DownloadResponse(filename, sendOk)
  /\ UNCHANGED <<worker, input, flushed, resp, store, upFile, unlinks, out, pc, pos,
                 counts, ev, caught, wfail>>

\* ------------------------------------------------------ GET /api/jobs/:id

\* Who calls: a user with a valid token, a request without a bearer header,
\* or one whose token fails verification.
Callers == Users \cup {"anonymous", "badtoken"}

\* GetJobResponse without the ownership check.
M_GetJobResponse(caller, id, getOk) ==
  IF caller = "anonymous"
  THEN [route |-> "getjob", caller |-> caller, id |-> id, code |-> 401,
        body |-> Absent, error |-> "Unauthorized"]
  ELSE IF caller = "badtoken"
  THEN [route |-> "getjob", caller |-> caller, id |-> id, code |-> 403,
        body |-> Absent, error |-> "Invalid Token"]
  ELSE IF ~getOk
  THEN [route |-> "getjob", caller |-> caller, id |-> id, code |-> 500,
        body |-> Absent, error |-> "Error fetching job"]
  ELSE IF ~store[id].exists
  THEN [route |-> "getjob", caller |-> caller, id |-> id, code |-> 404,
        body |-> Absent, error |-> "Job not found"]
  ELSE [route |-> "getjob", caller |-> caller, id |-> id, code |-> 200,
        body |-> Some(store[id]), error |-> ""]

\* authenticateUser, then the handler; getOk is whether the store lookup
\* returned.
GetJobResponse(caller, id, getOk) ==
  IF caller = "anonymous"
  THEN [route |-> "getjob", caller |-> caller, id |-> id, code |-> 401,
        body |-> Absent, error |-> "Unauthorized"]
  ELSE IF caller = "badtoken"
  THEN [route |-> "getjob", caller |-> caller, id |-> id, code |-> 403,
        body |-> Absent, error |-> "Invalid Token"]
  ELSE IF ~getOk
  THEN [route |-> "getjob", caller |-> caller, id |-> id, code |-> 500,
        body |-> Absent, error |-> "Error fetching job"]
  ELSE IF ~store[id].exists
  THEN [route |-> "getjob", caller |-> caller, id |-> id, code |-> 404,
        body |-> Absent, error |-> "Job not found"]
  ELSE IF store[id].userId # caller
  THEN [route |-> "getjob", caller |-> caller, id |-> id, code |-> 403,
        body |-> Absent, error |-> "Forbidden"]
  ELSE [route |-> "getjob", caller |-> caller, id |-> id, code |-> 200,
        body |-> Some(store[id]), error |-> ""]

GetJob(caller, id, getOk) ==
  /\ getOk \/ caller \in Users
  /\ http' = GetJobResponse(caller, id, getOk)
  /\ UNCHANGED <<worker, input, flushed, resp, store, upFile, unlinks, out, pc, pos,
                 counts, ev, caught, wfail>>

\* ---------------------------------------------------------- specification

\* The steps of the background run of job j.
Worker(j) ==
  \/ OnData(j)
  \/ OnEnd(j)
  \/ OnError(j)
  \/ \E ok \in BOOLEAN : EndWrite(j, ok)
  \/ \E ok \in BOOLEAN : Unlink(j, ok)
  \/ \E ok \in BOOLEAN : ErrWrite(j, ok)
  \/ ErrWriteCrash(j)
  \/ PWRow(j)
  \/ PWEnd(j)
  \/ PWStreamError(j)
  \/ \E ok \in BOOLEAN : PWProgWrite(j, ok)
  \/ \E ok \in BOOLEAN : PWComplete(j, ok)
  \/ \E ok \in BOOLEAN : PWCatch(j, ok)
  \/ \E ok \in BOOLEAN : PWFinally(j, ok)
  \/ Flush(j)

\* The steps that create and run jobs.
JobsNext ==
  \/ \E j \in Slots : UploadNoFile(j)
  \/ \E j \in Slots : UploadStoreFails(j)
  \/ \E j \in Slots : UploadOk(j)
  \/ \E j \in Slots : Worker(j)

\* The requests of the read-only routes.
ReadsNext ==
  \/ \E f \in Filenames, sendOk \in BOOLEAN : Download(f, sendOk)
  \/ \E c \in Callers, id \in Slots, getOk \in BOOLEAN : GetJob(c, id, getOk)

Next == JobsNext \/ ReadsNext

Spec == Init /\ [][Next]_vars

\* Two concurrent uploads and their runs.
SpecTwo == InitTwo /\ [][JobsNext]_vars

\* The jobs alone, the event loop running every pending callback and
\* continuation of a run.  The read-only routes write only http, which no
\* step of a job reads.
LiveSpec == Init /\ [][JobsNext]_vars /\ \A j \in Slots : WF_vars(Worker(j))

\* ------------------------------------------------------------------ claims

Terminal == {"completed", "failed"}

\* The background run of job j is over: nothing of it is pending.
RunOver(j) == pc[j] \in {"done", "rejected", "hung"}

\* C1: a job's stored document changes only while its status is processing,
\* and then only to processing, completed or failed: a terminal job is never
\* written again, so a job gets at most one terminal status.
C1_StatusMonotonic ==
  [][\A j \in Slots :
       (store[j].exists /\ store'[j] # store[j])
         => /\ store[j].status = "processing"
            /\ store'[j].exists
            /\ store'[j].status \in {"processing", "completed", "failed"}]_vars

\* C1 witness: a completed job of the syntax worker whose run went on (the
\* unlink callback ran) after the terminal write.
C1_Witness ==
  \E j \in Slots :
    /\ worker = "simple"
    /\ store[j].exists /\ store[j].status = "completed"
    /\ pc[j] = "done"

\* C2: once the syntax worker's run is over after a stream error raised
\* mid-file (store writes succeeding), the job is failed, has no
\* downloadUrl, and the uploaded file has been removed.
C2_StreamErrorOutcome ==
  \A j \in Slots :
    ( /\ worker = "simple"
      /\ ev[j] = "error"
      /\ 0 < pos[j] /\ pos[j] < Len(Rows(j))
      /\ ~wfail[j]
      /\ RunOver(j) )
      => /\ store[j].status = "failed"
         /\ store[j].downloadUrl = Absent
         /\ upFile[j] = "removed"

\* C3: once the syntax worker's run of a launched job is over, on whatever
\* exit path, the uploaded file has been deleted exactly once; and it is
\* never deleted before the run has left the stream.
C3_DeletedExactlyOnce ==
  \A j \in Slots :
    /\ (worker = "simple" /\ RunOver(j)) => unlinks[j] = 1
    /\ (worker = "simple" /\ unlinks[j] > 0) => pc[j] = "done"

\* C4: once the syntax worker's run has ended in an error (the promise is
\* rejected or the handler threw), the job is stored as failed with an error
\* detail recorded on it.
C4_ErrorsSurface ==
  \A j \in Slots :
    (worker = "simple" /\ pc[j] \in {"rejected", "hung"})
      => /\ store[j].status = "failed"
         /\ store[j].error # Absent

C6_CountsAtCompletion ==
  \A j \in Slots :
    (worker = "simple" /\ store[j].exists /\ store[j].status = "completed")
      => /\ store[j].stats.valid + store[j].stats.invalid + store[j].stats.risky
              = store[j].processedCount
         /\ store[j].processedCount = Len(Rows(j))

\* C6 witness: a completed job whose input held valid and invalid records.
C6_Witness ==
  \E j \in Slots :
    /\ worker = "simple"
    /\ store[j].exists /\ store[j].status = "completed"
    /\ store[j].stats.valid > 0 /\ store[j].stats.invalid > 0

\* The email cell of a row is empty, whichever column the worker reads.
EmptyEmail(header, row) == ~Truthy(PWEmailOf(header, row))

\* C7: a job completed by the progress-reporting worker has one output
\* record per input record, in input order, each the input's columns followed
\* by the validation columns; a record with an empty email is marked Invalid.
C7_OutputMatchesInput ==
  \A j \in Slots :
    (worker = "progress" /\ store[j].exists /\ store[j].status = "completed")
      => /\ Len(out[j][1]) = Len(Rows(j))
         /\ \A i \in 1..Len(Rows(j)) :
              /\ SubSeq(out[j][1][i], 1, Len(Header(j)))
                   = Columns(Header(j), Rows(j)[i])
              /\ Len(out[j][1][i]) = Len(Header(j)) + 2
              /\ EmptyEmail(Header(j), Rows(j)[i])
                   => out[j][1][i][Len(Header(j)) + 1][2] = "Invalid"

\* C8: a download request whose name contains '..' or does not start with
\* 'results-' is answered 403 and made no file-system call.
C8_DeniedNoFs ==
  (http.route = "download"
     /\ (Includes(http.name, DotDot) \/ ~StartsWith(http.name, ResultsPrefix)))
    => (http.code = 403 /\ http.fs = <<>>)

\* C8 witness: a denied request whose name has the prefix and holds '..'.
C8_Witness ==
  /\ http.route = "download"
  /\ StartsWith(http.name, ResultsPrefix)
  /\ Includes(http.name, DotDot)
  /\ http.code = 403

\* s.endsWith(p) on sequences of characters.
EndsWith(s, p) == Len(s) >= Len(p) /\ SubSeq(s, Len(s) - Len(p) + 1, Len(s)) = p

\* name is results-<jobId>.csv, the job id holding no '.' and no '/'.
MatchesPattern(name) ==
  /\ StartsWith(name, ResultsPrefix)
  /\ EndsWith(name, CsvSuffix)
  /\ Len(name) > Len(ResultsPrefix) + Len(CsvSuffix)
  /\ \A i \in (Len(ResultsPrefix) + 1)..(Len(name) - Len(CsvSuffix)) :
       name[i] \notin {".", "/"}

\* C9: a download request whose name is not results-<jobId>.csv is answered
\* 403 and made no file-system call.
C9_PatternEnforced ==
  (http.route = "download" /\ ~MatchesPattern(http.name))
    => (http.code = 403 /\ http.fs = <<>>)

\* C10: GET /api/jobs/:id returns a job only to its owner; when the lookup
\* returns a job owned by someone else the answer is 403 without any field of
\* the job, and when it returns no document the answer is 404; a failed
\* lookup (500) returns no field either.
C10_OwnerOnly ==
  [][(http' # http /\ http'.route = "getjob")
       => LET r == http'
          IN /\ r.body # Absent
                  => /\ r.code = 200
                     /\ store[r.id].exists
                     /\ r.body[1] = store[r.id]
                     /\ store[r.id].userId = r.caller
             /\ (r.caller \in Users /\ r.code # 500 /\ store[r.id].exists
                   /\ store[r.id].userId # r.caller)
                  => (r.code = 403 /\ r.body = Absent)
             /\ (r.caller \in Users /\ r.code # 500 /\ ~store[r.id].exists)
                  => (r.code = 404 /\ r.body = Absent)
             /\ (r.caller \in Users /\ r.code # 500 /\ store[r.id].exists
                   /\ store[r.id].userId = r.caller)
                  => (r.code = 200 /\ r.body = Some(store[r.id]))]_vars

\* C10 witness: a user asked for an existing job of another user and was
\* answered 403.
C10_Witness ==
  /\ http.route = "getjob"
  /\ http.caller \in Users
  /\ store[http.id].exists
  /\ store[http.id].userId # http.caller
  /\ http.code = 403
  /\ http.error = "Forbidden"

\* The counts the syntax worker's classification gives the rows rs.
StatsOf(header, rs) ==
  [valid |-> Cardinality({ i \in 1..Len(rs) : Classify(header, rs[i]) = "Valid" }),
   invalid |-> Cardinality({ i \in 1..Len(rs) : Classify(header, rs[i]) # "Valid" }),
   risky |-> 0]

\* C11 (under SpecTwo): two uploads give two jobs with distinct ids and output
\* files; the output and the final stats of each are those of its own input;
\* and a job still processing whose own run met no failure can go on,
\* whatever happened to the other job.
C11_JobsIndependent ==
  /\ (store[1].exists /\ store[2].exists)
       => (store[1].id # store[2].id /\ OutputFilename(1) # OutputFilename(2))
  /\ \A k \in Slots :
       /\ (worker = "simple" /\ out[k] # Absent)
            => out[k][1] = [i \in 1..pos[k] |-> SimpleOutRow(Header(k), Rows(k)[i])]
       /\ (worker = "simple" /\ store[k].exists /\ store[k].status = "completed")
            => store[k].stats = StatsOf(Header(k), Rows(k))
       /\ (worker = "simple" /\ store[k].exists /\ store[k].status = "processing"
             /\ ~wfail[k] /\ ev[k] # "error")
            => ENABLED Worker(k)

\* C12: a job's downloadUrl is absent unless the job is completed, and when
\* present it is '/api/download/results-' followed by the job's id and '.csv'.
C12_DownloadUrlFromId ==
  \A j \in Slots :
    (store[j].exists /\ store[j].downloadUrl # Absent)
      => /\ store[j].status = "completed"
         /\ store[j].downloadUrl
              = Some(ApiDownload \o ResultsPrefix \o IdStr(store[j].id) \o CsvSuffix)

C12_Witness ==
  \E j \in Slots :
    /\ store[j].exists
    /\ store[j].status = "completed"
    /\ store[j].downloadUrl # Absent

\* C13: every write to a job's document of the progress-reporting worker,
\* from its creation on, leaves stats.valid + stats.invalid + stats.risky
\* equal to processedCount; and every write that carries the counts (creation,
\* progress update, completed update) stores the number of records written to
\* the output stream at that moment.
C13_StatsMatchOutput ==
  [][\A j \in Slots :
       (worker = "progress" /\ store'[j] # store[j])
         => /\ store'[j].stats.valid + store'[j].stats.invalid + store'[j].stats.risky
                 = store'[j].processedCount
            /\ store'[j].status # "failed"
                 => store'[j].processedCount = Len(out'[j][1])]_vars

C13_Witness ==
  \E j \in Slots :
    /\ worker = "progress"
    /\ store[j].exists
    /\ store[j].status = "processing"
    /\ store[j].processedCount = BatchSize
    /\ Len(out[j][1]) = BatchSize

\* The email of a record as the specification describes it: the value of the
\* first column whose name contains 'email', else of the first column.
FallbackEmail(header, row) ==
  IF EmailKey(header) = 0 THEN row[1] ELSE row[EmailKey(header)]

\* C14: every record the syntax worker has written is marked from the value
\* of its email column, or of its first column when no column name contains
\* 'email': Valid when that value is a valid address, Invalid otherwise (an
\* absent or empty value included).
C14_EmailColumnOrFirst ==
  \A j \in Slots :
    (worker = "simple" /\ out[j] # Absent)
      => \A i \in 1..Len(out[j][1]) :
           LET header == Header(j)
               row == Rows(j)[i]
               written == out[j][1][i]
           IN written[Len(written)][2]
                = IF FallbackEmail(header, row) # "" /\ SyntaxValid(FallbackEmail(header, row))
                  THEN "Valid" ELSE "Invalid"

\* C15: an upload request without a file is answered with an error (400, no
\* job id) in the step that handles it; no job document is created for it and
\* no run of processCsvJob is started, then or later.
C15_NoFileNoJob ==
  \A j \in Slots :
    input[j] = NoFileReq
      => /\ ~store[j].exists
         /\ pc[j] = "idle"
         /\ out[j] = Absent
         /\ upFile[j] = "none"
         /\ resp[j] \in {Absent, Some([code |-> 400, jobId |-> Absent])}

C15_Witness ==
  \E j \in Slots :
    /\ input[j] = NoFileReq
    /\ resp[j] = Some([code |-> 400, jobId |-> Absent])

\* C16: a job of the syntax worker is completed only once every record
\* written to its output stream has reached the output file.
C16_CompletedAfterFlush ==
  \A j \in Slots :
    (worker = "simple" /\ store[j].exists /\ store[j].status = "completed")
      => flushed[j]

\* C17: whenever GET /api/download/:filename serves a job's output file
\* (answers 200 for its name), that job is completed at that moment.
C17_ServedOnlyCompleted ==
  [][\A j \in Slots :
       (http' # http /\ http'.route = "download" /\ http'.code = 200
          /\ http'.name = OutputFilename(j))
         => (store[j].exists /\ store[j].status = "completed")]_vars

\* C18: in the progress-reporting worker a failed progress update does not
\* abort the run: unless the input stream raised an error, a run that has
\* left its loop has processed every record, and its job is not failed with
\* records left unprocessed.
C18_ProgressFailureTolerated ==
  \A j \in Slots :
    (worker = "progress" /\ ev[j] # "error"
       /\ pc[j] \in {"finish", "catch", "finally", "finallyThrow", "done", "rejected"})
      => pos[j] = Len(Rows(j))

\* C19: in the progress-reporting worker no step lowers a job's stored
\* processedCount or totalEmails, each new processedCount is the cumulative
\* count of records processed so far, and once the job is completed or failed
\* neither field changes.
C19_CountsMonotonic ==
  [][\A j \in Slots :
       (worker = "progress" /\ store[j].exists)
         => /\ store'[j].exists
            /\ store'[j].processedCount >= store[j].processedCount
            /\ store'[j].totalEmails >= store[j].totalEmails
            /\ store'[j].processedCount # store[j].processedCount
                 => store'[j].processedCount = counts'[j].processed
            /\ store[j].status \in Terminal
                 => /\ store'[j].processedCount = store[j].processedCount
                    /\ store'[j].totalEmails = store[j].totalEmails]_vars

C19_Witness ==
  \E j \in Slots :
    /\ worker = "progress"
    /\ store[j].exists
    /\ store[j].status = "completed"
    /\ store[j].processedCount > BatchSize

====
